---- MODULE Spec2Model ----
(***************************************************************************)
(* Model of Dashboard.ipynb: the data wrangler (wrangle_data), the sync    *)
(* button callback (api_button_callback) and the column selector with its  *)
(* redraw callback (refresh_graph, beds_graph).                            *)
(*                                                                         *)
(* Representation.                                                         *)
(*  - A date string "YYYY-MM-DD" is the tuple <<Y, M, D>> of its three     *)
(*    zero-padded fixed-width fields, so Python's string order is the      *)
(*    field-wise order StrLess.  parse_date turns it into a day ordinal    *)
(*    (a pandas Timestamp at daily resolution) or fails.                   *)
(*  - A JSON value is None or Int(n); a DataFrame cell is NaN or Float(n). *)
(*  - A DataFrame is the sequence of its rows in index order; a row holds  *)
(*    its index value (date) and the four column cells.                    *)
(*  - A dict (the JSON document, the API answer) is [keys, data]: its key  *)
(*    set and the list stored under "data".                                *)
(***************************************************************************)
EXTENDS Integers, Sequences, FiniteSets, TLC

VARIABLES
    jsondata,     \* the document read from beds.json at startup
    df,           \* the global active table
    button,       \* apibutton's traits
    bedcols,      \* the value of the SelectMultiple widget (a tuple of labels)
    apidata,      \* what the last returned access_api() call gave
    draws,        \* what beds_graph rendered during the last handler, in order
    calls,        \* history: every wrangle_data call, in order
    fetchCalls,   \* history: number of access_api() calls started
    fetchReturns, \* history: number of access_api() calls that returned
    lastOp,       \* the handler that ran last
    error         \* the exception that escaped the last handler ("none" if none)

vars == <<jsondata, df, button, bedcols, apidata, draws, calls,
          fetchCalls, fetchReturns, lastOp, error>>

----------------------------------------------------------------------------
(* Bounds of the model *)

MaxApiLen == 2
MaxFetches == 2

----------------------------------------------------------------------------
(* Values *)

None == [kind |-> "None", val |-> 0]
Int_(n) == [kind |-> "int", val |-> n]
NaN == [kind |-> "NaN", val |-> 0]
Float(n) == [kind |-> "float", val |-> n]

Columns == <<"beds", "cases", "firstDose", "secondDose">>
ColumnSet == {Columns[i] : i \in DOMAIN Columns}

\* Date strings the inputs are drawn from: two days around the leap day of
\* 2020, the day after, and one string that is no calendar day.
DateStrings == {<<2020, 2, 28>>, <<2020, 3, 1>>, <<2020, 3, 2>>, <<2020, 2, 30>>}

\* The records the inputs are drawn from: for every date string, one record
\* with null beds and firstDose and one with null cases, so that on a shared
\* date every column sees null-then-number, number-then-null or two numbers.
EntryA(d) ==
    [date |-> d, beds |-> None, cases |-> Int_(100),
     firstDose |-> None, secondDose |-> Int_(0)]
EntryB(d) ==
    [date |-> d, beds |-> Int_(12), cases |-> None,
     firstDose |-> Int_(500), secondDose |-> Int_(7)]

Entries == { EntryA(d) : d \in DateStrings } \cup { EntryB(d) : d \in DateStrings }

ListsUpTo(S, n) == UNION { [1..k -> S] : k \in 0..n }

Dict(list) == [keys |-> {"data"}, data |-> list]
EmptyDict == [keys |-> {}, data |-> <<>>]
len(dict) == Cardinality(dict.keys)

----------------------------------------------------------------------------
(* parse_date *)

IsLeap(y) == (y % 4 = 0 /\ y % 100 # 0) \/ y % 400 = 0

DaysInMonth(y, m) ==
    IF m = 2 THEN (IF IsLeap(y) THEN 29 ELSE 28)
    ELSE IF m \in {4, 6, 9, 11} THEN 30 ELSE 31

RECURSIVE DaysBeforeMonth(_, _)
DaysBeforeMonth(y, m) ==
    IF m <= 1 THEN 0 ELSE DaysBeforeMonth(y, m - 1) + DaysInMonth(y, m - 1)

DaysBeforeYear(y) ==
    365 * (y - 1) + ((y - 1) \div 4) - ((y - 1) \div 100) + ((y - 1) \div 400)

parse_date(datestring) ==
    LET y == datestring[1]
        m == datestring[2]
        d == datestring[3]
    IN  IF m \in 1..12 /\ d \in 1..DaysInMonth(y, m)
        THEN [ok |-> TRUE, ts |-> DaysBeforeYear(y) + DaysBeforeMonth(y, m) + d]
        ELSE [ok |-> FALSE, ts |-> 0]

----------------------------------------------------------------------------
(* list.sort() on date strings *)

StrLess(a, b) ==
    \/ a[1] < b[1]
    \/ a[1] = b[1] /\ a[2] < b[2]
    \/ a[1] = b[1] /\ a[2] = b[2] /\ a[3] < b[3]

RECURSIVE InsertSorted(_, _)
InsertSorted(x, s) ==
    IF s = <<>> THEN <<x>>
    ELSE IF StrLess(x, Head(s)) THEN <<x>> \o s
    ELSE <<Head(s)>> \o InsertSorted(x, Tail(s))

sort_none(s) == s

RECURSIVE sort(_)
sort(s) ==
    IF s = <<>> THEN <<>>
    ELSE InsertSorted(s[Len(s)], sort(SubSeq(s, 1, Len(s) - 1)))

\* the same list.sort(), had it been applied to the records by their date
RECURSIVE InsertEntry(_, _)
InsertEntry(x, s) ==
    IF s = <<>> THEN <<x>>
    ELSE IF StrLess(x.date, Head(s).date) THEN <<x>> \o s
    ELSE <<Head(s)>> \o InsertEntry(x, Tail(s))

RECURSIVE sort_entries(_)
sort_entries(s) ==
    IF s = <<>> THEN <<>>
    ELSE InsertEntry(s[Len(s)], sort_entries(SubSeq(s, 1, Len(s) - 1)))

----------------------------------------------------------------------------
(* wrangle_data *)

\* An outcome of wrangle_data: status "ok" and the returned table, or the
\* exception raised; rawdata is the argument object as the call leaves it.
Return(table, rawdata) == [status |-> "ok", df |-> table, rawdata |-> rawdata]
Raise(exception, rawdata) == [status |-> exception, df |-> <<>>, rawdata |-> rawdata]

\* dates=[dictionary['date'] for dictionary in datalist]; dates.sort()
\* The comprehension builds a new list, which is the one sorted.
collect_dates_inplace(datalist) ==
    [dates |-> sort([i \in DOMAIN datalist |-> datalist[i].date]),
     datalist |-> sort_entries(datalist)]

collect_dates(datalist) ==
    [dates |-> sort([i \in DOMAIN datalist |-> datalist[i].date]),
     datalist |-> datalist]

\* pd.date_range(startdate, enddate, freq='D'): empty when enddate < startdate
date_range(startdate, enddate) ==
    [i \in 1..(enddate - startdate + 1) |-> startdate + i - 1]

\* pd.DataFrame(index=index, columns=[...]): every cell NaN
DataFrame(index) ==
    [i \in DOMAIN index |->
        [date |-> index[i], beds |-> NaN, cases |-> NaN,
         firstDose |-> NaN, secondDose |-> NaN]]

isna(cell) == cell.kind = "NaN"

\* float(entry[column]) if entry[column]!=None else 0.0
to_float(value) == IF value # None THEN Float(value.val) ELSE Float(0)

HasLabel(frame, ts) == \E i \in DOMAIN frame : frame[i].date = ts

\* the inner loop over the four columns for one entry
write_entry_overwrite(frame, ts, entry) ==
    [i \in DOMAIN frame |->
        IF frame[i].date # ts THEN frame[i]
        ELSE [date |-> ts,
              beds |-> to_float(entry["beds"]),
              cases |-> to_float(entry["cases"]),
              firstDose |-> to_float(entry["firstDose"]),
              secondDose |-> to_float(entry["secondDose"])]]

write_entry(frame, ts, entry) ==
    LET cell(row, column) ==
            IF isna(row[column]) THEN to_float(entry[column]) ELSE row[column]
    IN  [i \in DOMAIN frame |->
            IF frame[i].date # ts THEN frame[i]
            ELSE [date |-> ts,
                  beds |-> cell(frame[i], "beds"),
                  cases |-> cell(frame[i], "cases"),
                  firstDose |-> cell(frame[i], "firstDose"),
                  secondDose |-> cell(frame[i], "secondDose")]]

\* for entry in datalist: ...
RECURSIVE fill_entries(_, _)
fill_entries(frame, entries) ==
    IF entries = <<>> THEN [status |-> "ok", df |-> frame]
    ELSE LET entry == Head(entries)
             parsed_date == parse_date(entry.date)
         IN  IF ~parsed_date.ok THEN [status |-> "ValueError", df |-> <<>>]
             ELSE IF ~HasLabel(frame, parsed_date.ts)
                  THEN [status |-> "KeyError", df |-> <<>>]
             ELSE fill_entries(write_entry(frame, parsed_date.ts, entry),
                               Tail(entries))

\* df.fillna(0.0, inplace=True)
fillna_skipped(frame) == frame

fillna(frame) ==
    LET fill(cell) == IF isna(cell) THEN Float(0) ELSE cell
    IN  [i \in DOMAIN frame |->
            [date |-> frame[i].date,
             beds |-> fill(frame[i].beds),
             cases |-> fill(frame[i].cases),
             firstDose |-> fill(frame[i].firstDose),
             secondDose |-> fill(frame[i].secondDose)]]

\* lines 74-93, once dates[0] and dates[-1] exist
wrangle_rows(rawdata, dates, datalist) ==
    LET startdate == parse_date(dates[1])
        enddate == parse_date(dates[Len(dates)])
    IN  IF ~startdate.ok \/ ~enddate.ok THEN Raise("ValueError", rawdata)
        ELSE LET index == date_range(startdate.ts, enddate.ts)
                 filled == fill_entries(DataFrame(index), datalist)
             IN  IF filled.status # "ok" THEN Raise(filled.status, rawdata)
                 ELSE Return(fillna(filled.df), rawdata)

wrangle_data_empty_table(rawdata) ==
    IF "data" \notin rawdata.keys THEN Raise("KeyError", rawdata)
    ELSE LET c == collect_dates(rawdata.data)
             after == [rawdata EXCEPT !.data = c.datalist]
         IN  IF c.dates = <<>> THEN Return(<<>>, after)
             ELSE wrangle_rows(after, c.dates, c.datalist)

wrangle_data(rawdata) ==
    IF "data" \notin rawdata.keys THEN Raise("KeyError", rawdata)
    ELSE LET c == collect_dates(rawdata.data)
             after == [rawdata EXCEPT !.data = c.datalist]
         IN  IF c.dates = <<>> THEN Raise("IndexError", after)
             ELSE wrangle_rows(after, c.dates, c.datalist)

----------------------------------------------------------------------------
(* The widgets *)

\* A SelectMultiple value arriving from the front end lists the selected
\* options in option order.
RECURSIVE Selected(_, _)
Selected(S, i) ==
    IF i > Len(Columns) THEN <<>>
    ELSE (IF Columns[i] \in S THEN <<Columns[i]>> ELSE <<>>) \o Selected(S, i + 1)

Selections == { Selected(S, 1) : S \in SUBSET ColumnSet }

\* beds_graph(graphcolumns): what ends up in the output widget
beds_graph(graphcolumns, table) ==
    IF Len(graphcolumns) > 0
    THEN [kind |-> "plot", y |-> graphcolumns, data |-> table]
    ELSE [kind |-> "message", y |-> graphcolumns, data |-> <<>>]

\* bedcols.value = new: the trait notifies its observer (interactive_output
\* calling beds_graph) only when the value differs from the one held.
set_value(widget, new, table) ==
    IF new = widget.value THEN widget
    ELSE [value |-> new, draws |-> Append(widget.draws, beds_graph(new, table))]

refresh_graph_same_other(value, table) ==
    LET current == value
        other == SubSeq(Columns, 1, 2)
        w0 == [value |-> current, draws |-> <<>>]
        w1 == set_value(w0, other, table)
    IN  set_value(w1, current, table)

refresh_graph(value, table) ==
    LET current == value
        other == IF current = SubSeq(Columns, 1, 2)
                 THEN SubSeq(Columns, 1, 3)
                 ELSE SubSeq(Columns, 1, 2)
        w0 == [value |-> current, draws |-> <<>>]
        w1 == set_value(w0, other, table)
    IN  set_value(w1, current, table)

\* apibutton=wdg.Button(...)
IdleButton ==
    [description |-> "Sync data", disabled |-> FALSE, button_style |-> "",
     tooltip |-> "Sync latest data from PHE", icon |-> "cloud-download",
     style |-> "default"]

\* lines 146-148
synced_traits_enabled(b) ==
    [b EXCEPT !.icon = "check-circle", !.description = "Synced"]

synced_traits(b) ==
    [b EXCEPT !.icon = "check-circle", !.description = "Synced",
              !.disabled = TRUE]

\* lines 154-158; the assignment to style is taken to be accepted by the widget
error_traits(b) ==
    [b EXCEPT !.icon = "exclamation-circle", !.description = "Error",
              !.style = "warning",
              !.tooltip = "Could not sync latest data, falling back to current data",
              !.disabled = TRUE]

\* lines 149-151 when wrangle_data returned: df=...; refresh_graph()
install_stale(old, table, value) ==
    LET r == refresh_graph(value, old)
    IN  [df |-> table, bedcols |-> r.value, draws |-> r.draws]

install(old, table, value) ==
    LET r == refresh_graph(value, table)
    IN  [df |-> table, bedcols |-> r.value, draws |-> r.draws]

CallRecord(rawdata, r) ==
    [rawdata |-> rawdata, after |-> r.rawdata, status |-> r.status, df |-> r.df]

----------------------------------------------------------------------------
(* Startup: the cells run top to bottom *)

\* beds.json is a fixed file; two possible snapshots of it are considered:
\* a single record, and two records out of date order around a missing day.
FileContents ==
    { Dict(<<EntryA(<<2020, 2, 28>>)>>),
      Dict(<<EntryB(<<2020, 3, 1>>), EntryA(<<2020, 2, 28>>)>>) }

ApiResults == {EmptyDict} \cup { Dict(l) : l \in ListsUpTo(Entries, MaxApiLen) }

NotFetched == [keys |-> {"unset"}, data |-> <<>>]

\* The notebook is up only if df=wrangle_data(jsondata) succeeded.
Init ==
    /\ jsondata \in { j \in FileContents : wrangle_data(j).status = "ok" }
    /\ df = wrangle_data(jsondata).df
    /\ calls = <<CallRecord(jsondata, wrangle_data(jsondata))>>
    /\ button = IdleButton
    /\ bedcols = SubSeq(Columns, 1, 3)
    /\ draws = <<beds_graph(bedcols, df)>>
    /\ apidata = NotFetched
    /\ fetchCalls = 0
    /\ fetchReturns = 0
    /\ lastOp = "load"
    /\ error = "none"

----------------------------------------------------------------------------
(* Handlers *)

\* The user changes the selection: interactive_output calls beds_graph.
SelectionChange ==
    \E new \in Selections :
        /\ new # bedcols
        /\ bedcols' = new
        /\ draws' = <<beds_graph(new, df)>>
        /\ lastOp' = "select"
        /\ error' = "none"
        /\ UNCHANGED <<jsondata, df, button, apidata, calls, fetchCalls, fetchReturns>>

\* access_api() raises (the request fails): the callback ends at its first line.
SyncFetchRaises ==
    /\ ~button.disabled
    /\ fetchCalls < MaxFetches
    /\ fetchCalls' = fetchCalls + 1
    /\ lastOp' = "sync"
    /\ error' = "FetchError"
    /\ draws' = <<>>
    /\ UNCHANGED <<jsondata, df, button, bedcols, apidata, calls, fetchReturns>>

\* api_button_callback with access_api() returning
SyncFetchReturns ==
    /\ ~button.disabled
    /\ fetchCalls < MaxFetches
    /\ \E result \in ApiResults :
        /\ fetchCalls' = fetchCalls + 1
        /\ fetchReturns' = fetchReturns + 1
        /\ apidata' = result
        /\ lastOp' = "sync"
        /\ IF len(result) > 0
           THEN LET r == wrangle_data(result)
                IN  /\ button' = synced_traits(button)
                    /\ calls' = Append(calls, CallRecord(result, r))
                    /\ IF r.status = "ok"
                       THEN LET s == install(df, r.df, bedcols)
                            IN  /\ df' = s.df
                                /\ bedcols' = s.bedcols
                                /\ draws' = s.draws
                                /\ error' = "none"
                       ELSE /\ error' = r.status
                            /\ draws' = <<>>
                            /\ UNCHANGED <<df, bedcols>>
           ELSE /\ button' = error_traits(button)
                /\ error' = "none"
                /\ draws' = <<>>
                /\ UNCHANGED <<df, bedcols, calls>>
        /\ UNCHANGED jsondata

api_button_callback == SyncFetchRaises \/ SyncFetchReturns

Next == SelectionChange \/ api_button_callback

Spec == Init /\ [][Next]_vars

----------------------------------------------------------------------------
(* Properties *)

\* What the claims say of a call, computed from the records directly.
WellFormed(list) ==
    /\ list # <<>>
    /\ \A i \in DOMAIN list : parse_date(list[i].date).ok

Days(list) == { parse_date(list[i].date).ts : i \in DOMAIN list }
Earliest(list) == CHOOSE d \in Days(list) : \A e \in Days(list) : d <= e
Latest(list) == CHOOSE d \in Days(list) : \A e \in Days(list) : d >= e

Number(value) == IF value.kind = "None" THEN 0 ELSE value.val

RecordsOn(list, day) == { i \in DOMAIN list : parse_date(list[i].date).ts = day }
FirstOn(list, day) ==
    CHOOSE i \in RecordsOn(list, day) : \A j \in RecordsOn(list, day) : i <= j

LastCall == calls[Len(calls)]

\* C1: for every non-empty list of records, wrangle_data returns a table
\* with exactly one row per calendar day from the earliest to the latest
\* date of the input, ascending and without gaps; the row count is
\* (latest - earliest) + 1, whatever the order of the records.
C1_DenseRange ==
    \A k \in DOMAIN calls :
        LET list == calls[k].rawdata.data
            table == calls[k].df
        IN  WellFormed(list) =>
              /\ calls[k].status = "ok"
              /\ Len(table) = Latest(list) - Earliest(list) + 1
              /\ \A i \in DOMAIN table : table[i].date = Earliest(list) + i - 1

\* two records, later date first, with the leap day between them
C1_Witness ==
    /\ Len(calls) = 2
    /\ LastCall.rawdata.data = <<EntryA(<<2020, 3, 1>>), EntryB(<<2020, 2, 28>>)>>
    /\ LastCall.status = "ok"
    /\ Len(LastCall.df) = 3
    /\ df = LastCall.df

\* C2: every row of a returned table has a number in each of the four
\* columns: 0.0 on a day without a record, 0.0 for a field that is null in
\* the record supplying it, and otherwise the number a record of that day gives.
C2_AllNumeric ==
    \A k \in DOMAIN calls :
        LET list == calls[k].rawdata.data
            table == calls[k].df
        IN  calls[k].status = "ok" =>
              \A i \in DOMAIN table : \A c \in ColumnSet :
                  /\ table[i][c].kind = "float"
                  /\ RecordsOn(list, table[i].date) = {} => table[i][c].val = 0
                  /\ RecordsOn(list, table[i].date) # {} =>
                        \E j \in RecordsOn(list, table[i].date) :
                            table[i][c].val = Number(list[j][c])

\* the spec's example, moved to the dates of the model: a record with null
\* firstDose, a day without record, a record with beds 12
C2_Witness ==
    /\ Len(calls) = 2
    /\ LastCall.rawdata.data = <<EntryA(<<2020, 2, 28>>), EntryB(<<2020, 3, 1>>)>>
    /\ Len(df) = 3
    /\ df[1].firstDose = Float(0)
    /\ \A c \in ColumnSet : df[2][c] = Float(0)
    /\ df[3].beds = Float(12)

\* C3: when records share a date, each column of that date's row holds the
\* value of the first such record of the input list, a null there counting
\* as 0.0; later records of the date overwrite nothing.
C3_FirstWriteWins ==
    \A k \in DOMAIN calls :
        LET list == calls[k].rawdata.data
            table == calls[k].df
        IN  calls[k].status = "ok" =>
              \A i \in DOMAIN table : \A c \in ColumnSet :
                  RecordsOn(list, table[i].date) # {} =>
                      table[i][c] =
                        Float(Number(list[FirstOn(list, table[i].date)][c]))

\* two records of one day: the first has null beds and secondDose 0, the
\* second beds 12 and secondDose 7
C3_Witness ==
    /\ Len(calls) = 2
    /\ LastCall.rawdata.data = <<EntryA(<<2020, 3, 2>>), EntryB(<<2020, 3, 2>>)>>
    /\ Len(df) = 1
    /\ df[1].beds = Float(0)
    /\ df[1].secondDose = Float(0)
    /\ df[1].cases = Float(100)

\* a sync step whose fetch returned
SyncReturned == fetchReturns' = fetchReturns + 1

\* C4 (as claimed): when the sync button is pressed and the fetch returns no
\* records, df stays as it was, wrangle_data and the redraw are not invoked,
\* and the button ends with description "Error".
C4_EmptyFetchIsError ==
    [][ (SyncReturned /\ apidata'.data = <<>>) =>
            /\ df' = df
            /\ calls' = calls
            /\ draws' = <<>>
            /\ button'.description = "Error" ]_vars

\* C5 (as claimed): in every state where the button reads "Synced", the
\* active table is the table wrangle_data returned for the fetched result.
C5_SyncedMeansInstalled ==
    button.description = "Synced" =>
        /\ LastCall.rawdata = apidata
        /\ LastCall.status = "ok"
        /\ df = LastCall.df

\* C6: wrangle_data on an empty record list ends in an error and returns no
\* table; the error leaves the callback uncaught and df is unchanged.
C6_EmptyInputRaises ==
    [][ (calls' # calls /\ apidata'.data = <<>>) =>
            /\ calls'[Len(calls')].status \notin {"ok"}
            /\ calls'[Len(calls')].df = <<>>
            /\ error' = calls'[Len(calls')].status
            /\ df' = df
            /\ draws' = <<>> ]_vars

C6_Witness ==
    /\ Len(calls) = 2
    /\ LastCall.rawdata.data = <<>>
    /\ error = "IndexError"
    /\ df = calls[1].df

\* C7: the button starts idle; a press makes one fetch; once a fetch has
\* returned the button is "Synced" or "Error" with disabled=True, stays so,
\* and no further fetch is made.
C7_Idle == fetchReturns = 0 => button = IdleButton
C7_Terminal ==
    fetchReturns > 0 =>
        /\ fetchReturns = 1
        /\ button.disabled
        /\ button.description \in {"Synced", "Error"}
C7_Step ==
    /\ fetchCalls' - fetchCalls \in {0, 1}
    /\ fetchReturns' - fetchReturns \in {0, 1}
    /\ fetchReturns' - fetchReturns <= fetchCalls' - fetchCalls
    /\ button' # button => fetchCalls' = fetchCalls + 1
    /\ button.disabled => (button' = button /\ fetchCalls' = fetchCalls)
C9_WholeTableSwap ==
    [][ /\ df' # df =>
              /\ SyncReturned
              /\ calls'[Len(calls')].status = "ok"
              /\ df' = calls'[Len(calls')].df
        /\ bedcols' # bedcols => df' = df
        /\ \A i \in DOMAIN draws' :
              draws'[i].kind = "plot" => draws'[i].data = df' ]_vars

\* a sync that replaced the table and redrew
C9_Witness ==
    /\ lastOp = "sync"
    /\ Len(calls) = 2
    /\ df # calls[1].df
    /\ Len(draws) = 2
    /\ draws[2].kind = "plot"
    /\ draws[2].data = df

\* C10: for every selection, refresh_graph sets the selector to a different
\* value and back: the selection after the call is the one before it, and
\* the last redraw is made with that selection.
C10_RefreshRoundTrip ==
    [][ (calls' # calls /\ calls'[Len(calls')].status = "ok") =>
            /\ bedcols' = bedcols
            /\ Len(draws') = 2
            /\ draws'[1].y # bedcols
            /\ draws'[2].y = bedcols ]_vars

\* the selection equal to the first two options, and the empty one
C10_Witness ==
    /\ lastOp = "sync"
    /\ error = "none"
    /\ button.description = "Synced"
    /\ bedcols = <<"beds", "cases">>
    /\ Len(draws) = 2
    /\ draws[1].y = <<"beds", "cases", "firstDose">>
    /\ draws[2].y = bedcols

====
